---- MODULE Spec2Model ----
(***************************************************************************)
(* GeoBlogRF map facade (OSMMapRenderer) and map picker (MiniEventMap).    *)
(*                                                                         *)
(* The Leaflet objects the code owns are modelled by what the code can     *)
(* observe of them: a map is live until remove() succeeds, a container     *)
(* holds the id of the map bound to it, a marker is a handle with a        *)
(* position, a title and the map it is attached to.                        *)
(***************************************************************************)
EXTENDS Integers, Sequences, FiniteSets, TLC

VARIABLES
    maps,            \* Leaflet maps ever created, by handle 1..Len(maps)
    markers,         \* Leaflet markers ever created, by handle 1..Len(markers)
    leafletId,       \* container._leaflet_id: the map bound to the picker's container
    renderers,       \* OSMMapRenderer instances, by handle
    status,          \* component: "unmounted0" | "mounted" | "unmounted"
    props,           \* component props of the last render
    mapInstanceRef,  \* component refs
    markerRef,
    rendererRef,
    cleanupOf,       \* renderer captured by the init effect's registered cleanup
    pendingInit,     \* microtask queue: continuations of `await renderer.init`
    life,            \* history: facade API phase "fresh" | "inited" | "destroyed"
    last             \* history: the operation that ran last and what it did

vars == <<maps, markers, leafletId, renderers, status, props, mapInstanceRef,
          markerRef, rendererRef, cleanupOf, pendingInit, life, last>>

(* ------------------------------ bounds -------------------------------- *)
MaxLen == 2          \* longest marker list handed to renderMarkers
MaxMaps == 2         \* Leaflet maps created in one behaviour
MaxMarkers == 3      \* Leaflet markers created in one behaviour
MaxRenderers == 2    \* facade instances the component creates

(* ------------------------------ values -------------------------------- *)
Null == 0            \* null / undefined handle
NaNv == -1           \* a number that is NaN
Undef == -2          \* the value undefined where a number is read
DefaultZoom == 10
FallbackZoom == 13
MoscowLat == 55
MoscowLon == 37

\* JS values a coordinate argument can be: [lat, lng] array, {lat, lon} object,
\* or nothing.
Pair(a, b) == [kind |-> "array", x |-> a, y |-> b]
Point(a, b) == [kind |-> "object", x |-> a, y |-> b]
Absent == [kind |-> "undefined", x |-> Undef, y |-> Undef]

Elem(c, i) == IF c.kind = "array" THEN (IF i = 0 THEN c.x ELSE c.y) ELSE Undef
PropLat(c) == IF c.kind = "object" THEN c.x ELSE Undef
PropLon(c) == IF c.kind = "object" THEN c.y ELSE Undef

\* Leaflet's LatLng constructor: isNaN(lat) || isNaN(lng) throws.
InvalidLatLng(lat, lng) == lat \in {NaNv, Undef} \/ lng \in {NaNv, Undef}

\* Property names every plain object inherits from Object.prototype.
ObjectPrototypeKeys == {"constructor"}

\* this.leafletMarkers[id] read as a condition: own or inherited property.
HasTruthy(obj, id) == id \in DOMAIN obj \/ id \in ObjectPrototypeKeys

EmptyObject == [id \in {} |-> Null]

NewRenderer == [containerId |-> "", mapInstance |-> Null,
                leafletMarkers |-> EmptyObject, timers |-> 0,
                miniClickHandler |-> FALSE, onPos |-> "none", onClick |-> "none",
                handlerMap |-> Null]

\* The outcome of one call: the state after it, whether it threw, whether it
\* logged a warning, and the handle it returned.
Out(s, thrown, warned, ret) ==
    [s |-> s, thrown |-> thrown, warned |-> warned, ret |-> ret]

(* ------------------------- Leaflet primitives ------------------------- *)
\* The container the picker renders; leafletId is this container's map.
PickerContainer == "map1"

\* A container holds a map from L.map until that map's remove() succeeds.
Occupied(s, containerId) ==
    \E m \in DOMAIN s.maps : s.maps[m].live /\ s.maps[m].container = containerId

\* L.map(containerId, {center, zoom}): fails on a container that already
\* holds a map and on an invalid center.
LeafletMap(s, containerId, lat, lon, zoom) ==
    IF Occupied(s, containerId) \/ InvalidLatLng(lat, lon)
    THEN Out(s, TRUE, FALSE, Null)
    ELSE Out([s EXCEPT !.maps = Append(@, [live |-> TRUE, container |-> containerId,
                                            center |-> <<lat, lon>>,
                                            zoom |-> zoom, clickListeners |-> {}]),
                       !.leafletId = IF containerId = PickerContainer
                                     THEN Len(s.maps) + 1
                                     ELSE @],
             FALSE, FALSE, Len(s.maps) + 1)

\* A marker taken off its map: its owner drops the handle in the same step,
\* so only the handle number stays in use.
RemovedMarker == [latlng |-> <<Undef, Undef>>, title |-> "", draggable |-> FALSE,
                  dragend |-> "-", onMap |-> Null]

\* A removed map is unloaded: it has no view and no listeners any more.
RemovedMap == [live |-> FALSE, container |-> "", center |-> <<Undef, Undef>>,
               zoom |-> Undef, clickListeners |-> {}]

\* map.remove(): when it succeeds the map is dead, its layers are detached
\* and the container is free; when it throws nothing has been released.
LeafletRemove(s, m, removeThrows) ==
    IF removeThrows
    THEN Out(s, TRUE, FALSE, Null)
    ELSE Out([s EXCEPT !.maps[m] = RemovedMap,
                       !.leafletId = IF @ = m THEN Null ELSE @,
                       !.markers = [h \in DOMAIN @ |->
                                      IF @[h].onMap = m THEN RemovedMarker ELSE @[h]]],
             FALSE, FALSE, Null)

\* L.marker(latlng, options).addTo(map)
LeafletMarker(s, lat, lng, title, draggable, dragend, m) ==
    IF InvalidLatLng(lat, lng)
    THEN Out(s, TRUE, FALSE, Null)
    ELSE Out([s EXCEPT !.markers = Append(@, [latlng |-> <<lat, lng>>,
                                               title |-> title,
                                               draggable |-> draggable,
                                               dragend |-> dragend,
                                               onMap |-> m])],
             FALSE, FALSE, Len(s.markers) + 1)

\* map.setView(center, zoom)
LeafletSetView(s, m, lat, lng, zoom) ==
    IF InvalidLatLng(lat, lng)
    THEN Out(s, TRUE, FALSE, Null)
    ELSE Out([s EXCEPT !.maps[m].center = <<lat, lng>>, !.maps[m].zoom = zoom],
             FALSE, FALSE, Null)

(* --------------------------- OSMMapRenderer --------------------------- *)
ContainerExists(containerId) == containerId \in {"map1", "map2"}

\* init(containerId, config): everything up to the end of the async body.
FacadeInit(s, r, containerId, center, zoom) ==
    IF ~ContainerExists(containerId)
    THEN Out(s, TRUE, FALSE, Null)
    ELSE LET s1 == [s EXCEPT !.renderers[r].containerId = containerId]
             lat == IF center.kind = "array" THEN Elem(center, 0)
                    ELSE IF center.kind = "object" THEN PropLat(center)
                    ELSE MoscowLat
             lon == IF center.kind = "array" THEN Elem(center, 1)
                    ELSE IF center.kind = "object" THEN PropLon(center)
                    ELSE MoscowLon
             z == IF zoom = Undef THEN DefaultZoom ELSE zoom
             o == LeafletMap(s1, containerId, lat, lon, z)
         IN IF o.thrown
            THEN Out(s1, TRUE, FALSE, Null)
            ELSE Out([o.s EXCEPT !.renderers[r].mapInstance = o.ret,
                                 !.renderers[r].timers = @ + 1],
                     FALSE, FALSE, Null)

\* The setTimeout callback of init: this.mapInstance?.invalidateSize()
FacadeTimer(s, r) ==
    LET m == s.renderers[r].mapInstance
        s1 == [s EXCEPT !.renderers[r].timers = @ - 1]
    IN IF m = Null
       THEN Out(s1, FALSE, FALSE, Null)
       ELSE Out(s1, FALSE, FALSE, m)

FacadeGetMap(s, r) ==
    IF s.renderers[r].mapInstance = Null
    THEN Out(s, TRUE, FALSE, Null)
    ELSE Out(s, FALSE, FALSE, s.renderers[r].mapInstance)

\* marker.title || marker.name || ''
MarkerTitle(marker) ==
    IF marker.title # "" THEN marker.title
    ELSE IF marker.name # "" THEN marker.name
    ELSE ""

MarkerIds(ms) == {ms[i].id : i \in DOMAIN ms}

\* Mutant of RemoveStale: clear everything and let the second loop recreate it.
RemoveAllDisplayed(s, r, newIds) ==
    LET lm == s.renderers[r].leafletMarkers
        m == s.renderers[r].mapInstance
        gone == {lm[id] : id \in DOMAIN lm}
    IN [s EXCEPT !.markers = [h \in DOMAIN @ |->
                                IF h \in gone /\ @[h].onMap = m
                                THEN RemovedMarker
                                ELSE @[h]],
                 !.renderers[r].leafletMarkers = EmptyObject]

\* First loop of renderMarkers: drop every own key that is not requested.
RemoveStale(s, r, newIds) ==
    LET lm == s.renderers[r].leafletMarkers
        m == s.renderers[r].mapInstance
        stale == {id \in DOMAIN lm : id \notin newIds}
        gone == {lm[id] : id \in stale}
    IN [s EXCEPT !.markers = [h \in DOMAIN @ |->
                                IF h \in gone /\ @[h].onMap = m
                                THEN RemovedMarker
                                ELSE @[h]],
                 !.renderers[r].leafletMarkers = [id \in DOMAIN lm \ stale |-> lm[id]]]

\* Second loop of renderMarkers, from element i on: create what is missing.
RECURSIVE AddMissing(_, _, _, _)
AddMissing(s, r, ms, i) ==
    IF i > Len(ms)
    THEN Out(s, FALSE, FALSE, Null)
    ELSE LET marker == ms[i]
             lm == s.renderers[r].leafletMarkers
         IN IF HasTruthy(lm, marker.id)
            THEN AddMissing(s, r, ms, i + 1)
            ELSE LET o == LeafletMarker(s, PropLat(marker.coordinates),
                                        PropLon(marker.coordinates),
                                        MarkerTitle(marker), FALSE, "-",
                                        s.renderers[r].mapInstance)
                 IN IF o.thrown
                    THEN Out(s, TRUE, FALSE, Null)
                    ELSE AddMissing(
                           [o.s EXCEPT !.renderers[r].leafletMarkers =
                              [id \in DOMAIN lm \cup {marker.id} |->
                                 IF id = marker.id THEN o.ret ELSE lm[id]]],
                           r, ms, i + 1)

\* Mutant of FacadeRenderMarkers: the not-initialized guard is missing.
RenderMarkersUnguarded(s, r, ms) ==
    AddMissing(RemoveStale(s, r, MarkerIds(ms)), r, ms, 1)

FacadeRenderMarkers(s, r, ms) ==
    IF s.renderers[r].mapInstance = Null
    THEN Out(s, FALSE, TRUE, Null)
    ELSE AddMissing(RemoveStale(s, r, MarkerIds(ms)), r, ms, 1)

FacadeRenderRoute(s, r, route) ==
    IF s.renderers[r].mapInstance = Null
    THEN Out(s, FALSE, TRUE, Null)
    ELSE Out(s, FALSE, FALSE, Null)

FacadeSetView(s, r, center, zoom) ==
    IF s.renderers[r].mapInstance = Null
    THEN Out(s, FALSE, TRUE, Null)
    ELSE LET o == LeafletSetView(s, s.renderers[r].mapInstance,
                                 PropLat(center), PropLon(center), zoom)
         IN IF o.thrown THEN Out(s, FALSE, TRUE, Null) ELSE Out(o.s, FALSE, FALSE, Null)

\* destroy(): the state is reset only after remove() has returned.
FacadeDestroy(s, r, removeThrows) ==
    IF s.renderers[r].mapInstance = Null
    THEN Out(s, FALSE, FALSE, Null)
    ELSE LET o == LeafletRemove(s, s.renderers[r].mapInstance, removeThrows)
         IN IF o.thrown
            THEN Out(s, FALSE, TRUE, Null)
            ELSE Out([o.s EXCEPT !.renderers[r].mapInstance = Null,
                                 !.renderers[r].leafletMarkers = EmptyObject],
                     FALSE, FALSE, Null)

(* ------------------------- state as one record ------------------------ *)
Cur == [maps |-> maps, markers |-> markers, leafletId |-> leafletId,
        renderers |-> renderers, mapInstanceRef |-> mapInstanceRef,
        markerRef |-> markerRef, rendererRef |-> rendererRef,
        cleanupOf |-> cleanupOf, pendingInit |-> pendingInit, calls |-> <<>>]

Install(s) ==
    /\ maps' = s.maps
    /\ markers' = s.markers
    /\ leafletId' = s.leafletId
    /\ renderers' = s.renderers
    /\ mapInstanceRef' = s.mapInstanceRef
    /\ markerRef' = s.markerRef
    /\ rendererRef' = s.rendererRef
    /\ cleanupOf' = s.cleanupOf
    /\ pendingInit' = s.pendingInit

NoWhere == <<Undef, Undef>>

\* History record of a facade call.
Did(op, o, ids, differs) ==
    [op |-> op, thrown |-> o.thrown, warned |-> o.warned, ret |-> o.ret,
     ids |-> ids, differs |-> differs, calls |-> o.s.calls,
     at |-> NoWhere, had |-> Null, userMoved |-> FALSE]

\* History record of a component step: the renderer it ran for, the event
\* coordinate, the marker reference it found, the callbacks it invoked and
\* the view requests it made of the facade, and
\* whether the user has placed or dragged the marker since markerPosition
\* was last supplied.
DidC(op, s, r, at, had, userMoved) ==
    [op |-> op, thrown |-> FALSE, warned |-> FALSE, ret |-> r,
     ids |-> {}, differs |-> {}, calls |-> s.calls,
     at |-> at, had |-> had, userMoved |-> userMoved]

NoProps == [center |-> Absent, zoom |-> Undef, markerPosition |-> Absent,
            onMarkerPositionChange |-> "none", onMapClick |-> "none"]

(* --------------------- the facade driven by a client ------------------ *)
F == 1   \* the facade instance under test

Ids == {"a", "b", "constructor"}
Marker(i, c, t, n) == [id |-> i, coordinates |-> c, title |-> t, name |-> n]
UnifiedMarkers ==
    {Marker("a", Point(1, 2), "t1", ""), Marker("a", Point(3, 4), "", "n2"),
     Marker("b", Point(1, 2), "t1", ""), Marker("b", Point(NaNv, 2), "", ""),
     Marker("constructor", Point(1, 2), "t1", "")}
MarkerLists == UNION {[1..n -> UnifiedMarkers] : n \in 0..MaxLen}
ContainerIds == {"map1", "missing"}
Configs == {[center |-> Absent, zoom |-> Undef],
            [center |-> Pair(MoscowLat, MoscowLon), zoom |-> DefaultZoom],
            [center |-> Point(MoscowLat, MoscowLon), zoom |-> DefaultZoom]}
ViewCenters == {Point(1, 2), Point(NaNv, 2)}

FacadeSpecInit ==
    /\ maps = <<>>
    /\ markers = <<>>
    /\ leafletId = Null
    /\ renderers = <<NewRenderer>>
    /\ status = "unmounted0"
    /\ props = NoProps
    /\ mapInstanceRef = Null
    /\ markerRef = Null
    /\ rendererRef = Null
    /\ cleanupOf = Null
    /\ pendingInit = <<>>
    /\ life = "fresh"
    /\ last = DidC("new", Cur, Null, NoWhere, Null, FALSE)

CallInit ==
    \E cid \in ContainerIds, config \in Configs :
        LET o == FacadeInit(Cur, F, cid, config.center, config.zoom)
        IN /\ Len(o.s.maps) <= MaxMaps
           /\ Install(o.s)
           /\ life' = IF o.thrown THEN life ELSE "inited"
           /\ last' = Did("init", o, {}, {})
           /\ UNCHANGED <<status, props>>

TimerFires ==
    /\ renderers[F].timers > 0
    /\ LET o == FacadeTimer(Cur, F)
       IN /\ Install(o.s)
          /\ last' = Did("timer", o, {}, {})
          /\ UNCHANGED <<status, props, life>>

CallGetMap ==
    LET o == FacadeGetMap(Cur, F)
    IN /\ Install(o.s)
       /\ last' = Did("getMap", o, {}, {})
       /\ UNCHANGED <<status, props, life>>

\* History only: the ids already displayed that the list describes differently
\* from the marker on the map.
Redescribed(s, r, ms) ==
    LET lm == s.renderers[r].leafletMarkers
    IN {ms[i].id : i \in {j \in DOMAIN ms :
            /\ ms[j].id \in DOMAIN lm
            /\ \/ s.markers[lm[ms[j].id]].latlng
                      # <<PropLat(ms[j].coordinates), PropLon(ms[j].coordinates)>>
               \/ s.markers[lm[ms[j].id]].title # MarkerTitle(ms[j])}}

CallRenderMarkers ==
    \E ms \in MarkerLists :
        LET o == FacadeRenderMarkers(Cur, F, ms)
        IN /\ Len(o.s.markers) <= MaxMarkers
           /\ Install(o.s)
           /\ last' = Did("renderMarkers", o, MarkerIds(ms), Redescribed(Cur, F, ms))
           /\ UNCHANGED <<status, props, life>>

CallRenderRoute ==
    LET o == FacadeRenderRoute(Cur, F, [id |-> "r1"])
    IN /\ Install(o.s)
       /\ last' = Did("renderRoute", o, {}, {})
       /\ UNCHANGED <<status, props, life>>

CallSetView ==
    \E center \in ViewCenters, zoom \in {5} :
        LET o == FacadeSetView(Cur, F, center, zoom)
        IN /\ Install(o.s)
           /\ last' = Did("setView", o, {}, {})
           /\ UNCHANGED <<status, props, life>>

CallDestroy ==
    \E removeThrows \in BOOLEAN :
        LET o == FacadeDestroy(Cur, F, removeThrows)
        IN /\ Install(o.s)
           /\ life' = "destroyed"
           /\ last' = Did("destroy", o, {}, {})
           /\ UNCHANGED <<status, props>>

FacadeNext ==
    \/ CallInit
    \/ CallGetMap
    \/ CallRenderMarkers
    \/ CallRenderRoute
    \/ CallSetView
    \/ CallDestroy

FacadeSpec == FacadeSpecInit /\ [][FacadeNext]_vars

\* The facade with the delayed layout pass of init: the timer callback reads
\* only the map handle, so it is explored against the calls that set it.
TimerNext ==
    \/ CallInit
    \/ TimerFires
    \/ CallGetMap
    \/ CallRenderRoute
    \/ CallSetView
    \/ CallDestroy

TimerSpec == FacadeSpecInit /\ [][TimerNext]_vars

\* The facade moved between containers by a client that keeps the facade's
\* contract: init is called first, or after a call of destroy.
ReinitContainers == {"map1", "map2"}

CallInitInOrder ==
    /\ life # "inited"
    /\ \E cid \in ReinitContainers :
        LET o == FacadeInit(Cur, F, cid, Absent, Undef)
        IN /\ Len(o.s.maps) <= MaxMaps
           /\ Install(o.s)
           /\ life' = IF o.thrown THEN life ELSE "inited"
           /\ last' = Did("init", o, {}, {})
           /\ UNCHANGED <<status, props>>

ReinitNext ==
    \/ CallInitInOrder
    \/ CallRenderMarkers
    \/ CallDestroy

ReinitSpec == FacadeSpecInit /\ [][ReinitNext]_vars

(* ------------------------------ MiniEventMap -------------------------- *)
\* A callback prop is invoked through ?. : an absent one is skipped.
Invoke(s, name, cb, at) ==
    IF cb = "none" THEN s ELSE [s EXCEPT !.calls = Append(@, <<name, at>>)]

SetLatLng(s, h, lat, lng) == [s EXCEPT !.markers[h].latlng = <<lat, lng>>]

\* Whether the optional call renderer.onMapClick?.(clickHandler) throws:
\* OSMMapRenderer has no onMapClick member, so the call is skipped.
OptionalHookThrows == FALSE

\* try { renderer.onMapClick?.(clickHandler) } catch (e) { map.on('click', clickHandler) }
Subscribe(s, r, m) ==
    IF OptionalHookThrows
    THEN [s EXCEPT !.maps[m].clickListeners = @ \cup {r}]
    ELSE s

\* The body of the init effect, up to the call of init(): the async init has
\* run to its first await, the rest is queued as a microtask.
RunInitEffect(s, p) ==
    IF s.mapInstanceRef # Null
    THEN [s EXCEPT !.cleanupOf = Null]
    ELSE LET r == Len(s.renderers) + 1
             s1 == [s EXCEPT !.renderers = Append(@, NewRenderer), !.rendererRef = r]
             o == FacadeInit(s1, r, PickerContainer, p.center, p.zoom)
         IN [o.s EXCEPT !.pendingInit =
                           Append(@, [renderer |-> r, ok |-> ~o.thrown,
                                      onPos |-> p.onMarkerPositionChange,
                                      onClick |-> p.onMapClick]),
                        !.cleanupOf = r]

\* The rest of init() after `await renderer.init(...)`, for continuation c.
ContinueInit(s, c) ==
    IF ~c.ok
    THEN s
    ELSE LET g == FacadeGetMap(s, c.renderer)
         IN IF g.thrown
            THEN s
            ELSE Subscribe([s EXCEPT !.mapInstanceRef = g.ret,
                                     !.renderers[c.renderer].miniClickHandler = TRUE,
                                     !.renderers[c.renderer].onPos = c.onPos,
                                     !.renderers[c.renderer].onClick = c.onClick,
                                     !.renderers[c.renderer].handlerMap = g.ret],
                           c.renderer, g.ret)

\* Mutant of ClickHandler: an existing marker is left where it is.
ClickHandlerNoMove(s, r, lat, lng, addToThrows) ==
    LET h == s.renderers[r]
        s1 == IF s.markerRef # Null
              THEN s
              ELSE LET o == LeafletMarker(s, lat, lng, "", TRUE, h.onPos, h.handlerMap)
                   IN [o.s EXCEPT !.markerRef = o.ret]
    IN IF s.markerRef = Null /\ ~s.maps[h.handlerMap].live /\ addToThrows
       THEN s
       ELSE Invoke(Invoke(s1, "onMarkerPositionChange", h.onPos, <<lat, lng>>),
                   "onMapClick", h.onClick, <<lat, lng>>)

\* clickHandler(e) of the init that ran for renderer r. The handler closes
\* over the map of its init; adding a layer to a map that has been removed
\* either registers the layer on the dead map or fails on its missing panes
\* (addToThrows), and the handler's own try/catch swallows the failure before
\* the reference is set and before the callbacks run.
ClickHandler(s, r, lat, lng, addToThrows) ==
    LET h == s.renderers[r]
        s1 == IF s.markerRef # Null
              THEN SetLatLng(s, s.markerRef, lat, lng)
              ELSE LET o == LeafletMarker(s, lat, lng, "", TRUE, h.onPos, h.handlerMap)
                   IN [o.s EXCEPT !.markerRef = o.ret]
    IN IF s.markerRef = Null /\ ~s.maps[h.handlerMap].live /\ addToThrows
       THEN s
       ELSE Invoke(Invoke(s1, "onMarkerPositionChange", h.onPos, <<lat, lng>>),
                   "onMapClick", h.onClick, <<lat, lng>>)

\* The cleanup the init effect returned, closed over renderer r.
RunCleanup(s, r, removeThrows) ==
    LET map == s.mapInstanceRef
        s1 == IF map # Null /\ s.renderers[r].miniClickHandler
              THEN [s EXCEPT !.maps[map].clickListeners = @ \ {r}]
              ELSE s
        s2 == IF s1.rendererRef # Null
              THEN [FacadeDestroy(s1, s1.rendererRef, removeThrows).s EXCEPT !.rendererRef = Null]
              ELSE s1
    IN [s2 EXCEPT !.mapInstanceRef = Null, !.markerRef = Null, !.cleanupOf = Null]

\* The markerPosition effect.
RunMarkerEffect(s, p) ==
    IF s.mapInstanceRef = Null \/ p.markerPosition.kind # "array"
    THEN s
    ELSE LET lat == Elem(p.markerPosition, 0)
             lng == Elem(p.markerPosition, 1)
             s1 == IF s.markerRef # Null
                   THEN SetLatLng(s, s.markerRef, lat, lng)
                   ELSE LET o == LeafletMarker(s, lat, lng, "", TRUE,
                                               p.onMarkerPositionChange, s.mapInstanceRef)
                        IN [o.s EXCEPT !.markerRef = o.ret]
             \* Math.max(rendererRef.current?.getZoom?.() ?? 13): no getZoom member
             z == FallbackZoom
         IN IF s1.rendererRef = Null
            THEN s1
            ELSE LET s2 == [s1 EXCEPT !.calls = Append(@, <<"setView", <<lat, lng>>, z>>)]
                     v == FacadeSetView(s2, s2.rendererRef, Pair(lat, lng), z)
                 IN IF v.thrown
                    THEN LeafletSetView(s2, s2.mapInstanceRef, lat, lng, z).s
                    ELSE v.s

\* The center/zoom effect.
RunViewEffect(s, p) ==
    IF s.rendererRef = Null
    THEN s
    ELSE LET v == FacadeSetView(s, s.rendererRef, p.center, p.zoom)
         IN IF v.thrown
            THEN IF s.mapInstanceRef = Null
                 THEN s
                 ELSE LeafletSetView(s, s.mapInstanceRef, Elem(p.center, 0),
                                     Elem(p.center, 1), p.zoom).s
            ELSE v.s

InitDeps == {"center", "zoom", "onMarkerPositionChange", "onMapClick"}
MarkerDeps == {"markerPosition", "onMarkerPositionChange"}
ViewDeps == {"center", "zoom"}

\* One commit: the cleanups of the effects whose dependencies changed, then
\* those effects in declaration order.
Commit(s, p, changed, removeThrows) ==
    LET s1 == IF changed \cap InitDeps # {} /\ s.cleanupOf # Null
              THEN RunCleanup(s, s.cleanupOf, removeThrows)
              ELSE s
        s2 == IF changed \cap InitDeps # {} THEN RunInitEffect(s1, p) ELSE s1
        s3 == IF changed \cap MarkerDeps # {} THEN RunMarkerEffect(s2, p) ELSE s2
    IN IF changed \cap ViewDeps # {} THEN RunViewEffect(s3, p) ELSE s3

(* ---------------------- the component in its page --------------------- *)
PropNames == {"center", "zoom", "markerPosition", "onMarkerPositionChange", "onMapClick"}
PropValues ==
    [center : {Pair(MoscowLat, MoscowLon), Pair(1, 2)},
     zoom : {DefaultZoom, 15},
     markerPosition : {Absent, Pair(1, 2)},
     onMarkerPositionChange : {"posA"},
     onMapClick : {"clickA"}]
\* Props that can get a new identity while keeping their value (arrays and
\* functions created during the parent's render).
FreshSets == {{}, {"center"}, {"markerPosition"}, {"onMarkerPositionChange"},
              {"onMapClick"}, {"center", "markerPosition"}}
Positions == {<<1, 2>>, <<3, 4>>}

Differing(p, q) == {n \in PropNames : p[n] # q[n]}

\* Whether this commit's cleanup reaches the release call of the library.
Releases(s, changed) ==
    /\ changed \cap InitDeps # {}
    /\ s.cleanupOf # Null
    /\ s.rendererRef # Null
    /\ s.renderers[s.rendererRef].mapInstance # Null

Outcomes(s, changed) == IF Releases(s, changed) THEN BOOLEAN ELSE {FALSE}

WithinBounds(s) ==
    /\ Len(s.renderers) <= MaxRenderers
    /\ Len(s.maps) <= MaxMaps
    /\ Len(s.markers) <= MaxMarkers

Init ==
    /\ maps = <<>>
    /\ markers = <<>>
    /\ leafletId = Null
    /\ renderers = <<>>
    /\ status = "unmounted0"
    /\ props = NoProps
    /\ mapInstanceRef = Null
    /\ markerRef = Null
    /\ rendererRef = Null
    /\ cleanupOf = Null
    /\ pendingInit = <<>>
    /\ life = "fresh"
    /\ last = DidC("new", Cur, Null, NoWhere, Null, FALSE)

Mount ==
    /\ status = "unmounted0"
    /\ \E p \in PropValues :
        LET s == Commit(Cur, p, PropNames, FALSE)
        IN /\ WithinBounds(s)
           /\ Install(s)
           /\ props' = p
           /\ status' = "mounted"
           /\ last' = DidC("mount", s, s.rendererRef, NoWhere, Null, FALSE)
           /\ UNCHANGED life

Rerender ==
    /\ status = "mounted"
    /\ \E p \in PropValues, fresh \in FreshSets :
        /\ Cardinality(Differing(props, p)) <= 1
        /\ Differing(props, p) \cup fresh # {}
        /\ LET changed == Differing(props, p) \cup fresh
           IN \E removeThrows \in Outcomes(Cur, changed) :
                LET s == Commit(Cur, p, changed, removeThrows)
                IN /\ WithinBounds(s)
                   /\ Install(s)
                   /\ props' = p
                   /\ last' = DidC("rerender", s, s.rendererRef, NoWhere, Null,
                                   last.userMoved /\ "markerPosition" \notin changed)
                   /\ UNCHANGED <<status, life>>

Unmount ==
    /\ status = "mounted"
    /\ \E removeThrows \in Outcomes(Cur, InitDeps) :
        LET s == IF cleanupOf # Null THEN RunCleanup(Cur, cleanupOf, removeThrows) ELSE Cur
        IN /\ Install(s)
           /\ status' = "unmounted"
           /\ last' = DidC("unmount", s, Null, NoWhere, Null, last.userMoved)
           /\ UNCHANGED <<props, life>>

InitContinues ==
    /\ pendingInit # <<>>
    /\ LET c == Head(pendingInit)
           s == ContinueInit([Cur EXCEPT !.pendingInit = Tail(@)], c)
       IN /\ Install(s)
          /\ last' = DidC("continue", s, c.renderer, NoWhere, Null, last.userMoved)
          /\ UNCHANGED <<status, props, life>>

RECURSIVE Dispatch(_, _, _, _)
Dispatch(s, listeners, lat, lng) ==
    IF listeners = {}
    THEN s
    ELSE LET r == CHOOSE x \in listeners : \A y \in listeners : x <= y
         IN Dispatch(ClickHandler(s, r, lat, lng, FALSE), listeners \ {r}, lat, lng)

\* The user clicks the map shown in the container.
UserClick ==
    /\ leafletId # Null
    /\ \E at \in Positions :
        LET s == Dispatch(Cur, maps[leafletId].clickListeners, at[1], at[2])
        IN /\ WithinBounds(s)
           /\ Install(s)
           /\ last' = IF maps[leafletId].clickListeners = {}
                      THEN last
                      ELSE DidC("click", s, leafletId, at, markerRef, TRUE)
           /\ UNCHANGED <<status, props, life>>

\* Mutant of DragEnd: the drop is also reported as a map click.
DragEndAlsoClicks ==
    \E h \in DOMAIN markers, at \in Positions :
        /\ markers[h].draggable
        /\ markers[h].onMap # Null
        /\ maps[markers[h].onMap].live
        /\ markers[h].latlng # at
        /\ LET s == Invoke(Invoke(SetLatLng(Cur, h, at[1], at[2]),
                                  "onMarkerPositionChange", markers[h].dragend, at),
                           "onMapClick", props.onMapClick, at)
           IN /\ Install(s)
              /\ last' = DidC("dragend", s, h, at, Null, TRUE)
              /\ UNCHANGED <<status, props, life>>

\* The user drags a marker shown on the map and drops it: the marker has the
\* new position when its dragend handler runs.
DragEnd ==
    \E h \in DOMAIN markers, at \in Positions :
        /\ markers[h].draggable
        /\ markers[h].onMap # Null
        /\ maps[markers[h].onMap].live
        /\ markers[h].latlng # at
        /\ LET s == Invoke(SetLatLng(Cur, h, at[1], at[2]), "onMarkerPositionChange",
                           markers[h].dragend, at)
           IN /\ Install(s)
              /\ last' = DidC("dragend", s, h, at, Null, TRUE)
              /\ UNCHANGED <<status, props, life>>

Next ==
    \/ Mount
    \/ Rerender
    \/ Unmount
    \/ InitContinues
    \/ UserClick
    \/ DragEnd

Spec == Init /\ [][Next]_vars

\* Whether this call of the handler adds a layer to a removed map.
AddsToRemovedMap(s, r) ==
    /\ s.markerRef = Null
    /\ ~s.maps[s.renderers[r].handlerMap].live

AddOutcomes(s, r) == IF AddsToRemovedMap(s, r) THEN BOOLEAN ELSE {FALSE}

\* The click handler published as renderer.__miniClickHandler is called with
\* a click event.
HandlerInvoked ==
    \E r \in DOMAIN renderers, at \in Positions :
        /\ renderers[r].miniClickHandler
        /\ \E addToThrows \in AddOutcomes(Cur, r) :
            LET s == ClickHandler(Cur, r, at[1], at[2], addToThrows)
            IN /\ WithinBounds(s)
               /\ Install(s)
               /\ last' = DidC("handler", s, r, at, markerRef, TRUE)
               /\ UNCHANGED <<status, props, life>>

HandlerNext ==
    \/ Next
    \/ HandlerInvoked

HandlerSpec == Init /\ [][HandlerNext]_vars

(* ------------------------- claims on the facade ----------------------- *)
Keys == DOMAIN renderers[F].leafletMarkers
Initialized == renderers[F].mapInstance # Null
RenderingOps == {"renderMarkers", "renderRoute", "setView"}

\* C1: after a renderMarkers call that returns on an initialized facade, the
\* key set of the id-to-handle mapping equals the set of ids of the list passed.
C1_KeysEqualRequestedIds ==
    (last.op = "renderMarkers" /\ Initialized /\ ~last.thrown) => Keys = last.ids

\* C2: an id displayed before a renderMarkers call and requested by it keeps
\* its handle, and the marker behind the handle keeps its position, title and
\* map, whatever the call says about that id.
C2_SharedIdKeepsHandle ==
    [][last'.op = "renderMarkers" =>
         \A id \in Keys \cap last'.ids :
            /\ id \in DOMAIN renderers'[F].leafletMarkers
            /\ renderers'[F].leafletMarkers[id] = renderers[F].leafletMarkers[id]
            /\ markers'[renderers[F].leafletMarkers[id]]
                  = markers[renderers[F].leafletMarkers[id]]]_vars

\* C2 witness: a call has returned that described a displayed id differently.
C2_Witness ==
    /\ last.op = "renderMarkers"
    /\ ~last.thrown
    /\ last.differs # {}
    /\ last.differs \subseteq Keys

\* C3: destroy never throws and always leaves the facade uninitialized: no
\* map handle and an empty marker mapping.
C3_DestroyLeavesUninitialized ==
    last.op = "destroy" =>
        /\ ~last.thrown
        /\ renderers[F].mapInstance = Null
        /\ renderers[F].leafletMarkers = EmptyObject

\* C4: getMap returns the owned map between a successful init and the next
\* destroy, and throws before init and after destroy.
C4_GetMapThrowsUnlessInitialized ==
    last.op = "getMap" =>
        IF life = "inited"
        THEN ~last.thrown /\ last.ret # Null /\ last.ret = renderers[F].mapInstance
        ELSE last.thrown

\* C5: on a facade without a map, renderMarkers, renderRoute and setView do
\* not throw, log a warning and change nothing.
C5_UninitializedIsWarnedNoOp ==
    [][(last'.op \in RenderingOps /\ ~Initialized) =>
         /\ ~last'.thrown
         /\ last'.warned
         /\ renderers' = renderers
         /\ maps' = maps
         /\ markers' = markers
         /\ leafletId' = leafletId]_vars

\* C5 witness: a non-empty list was handed to renderMarkers after destroy.
C5_Witness ==
    /\ last.op = "renderMarkers"
    /\ last.ids # {}
    /\ last.warned
    /\ life = "destroyed"
    /\ ~Initialized

\* C6: renderMarkers, renderRoute and setView never let a failure of the
\* mapping library escape.
C6_RenderingNeverThrows ==
    last.op \in RenderingOps => ~last.thrown

(* ------------------------ claims on the component --------------------- *)
\* READY: mounted, the init continuation of the current renderer has run and
\* published its click handler, and no continuation is pending.
Ready ==
    /\ status = "mounted"
    /\ pendingInit = <<>>
    /\ mapInstanceRef # Null
    /\ rendererRef # Null
    /\ renderers[rendererRef].miniClickHandler
    /\ renderers[rendererRef].handlerMap = mapInstanceRef

\* C7: once init has completed on a mounted component, its click handler is
\* subscribed to the click events of the component's map.
C7_HandlerSubscribedWhenReady ==
    Ready => rendererRef \in maps[mapInstanceRef].clickListeners

\* The callbacks a click at c must produce, in order.
ClickCalls(c) == <<<<"onMarkerPositionChange", c>>, <<"onMapClick", c>>>>

\* C8: the click handler of a READY component, called with coordinate c,
\* creates one draggable marker at c on the component's map when the marker
\* reference is empty and otherwise moves the referenced marker to c, and
\* calls onMarkerPositionChange and then onMapClick once each with c.
C8_ClickPlacesOrMovesMarker ==
    [][(last'.op = "handler" /\ Ready /\ last'.ret = rendererRef) =>
         /\ last'.calls = ClickCalls(last'.at)
         /\ IF markerRef = Null
            THEN /\ Len(markers') = Len(markers) + 1
                 /\ markerRef' = Len(markers')
                 /\ markers'[markerRef'].latlng = last'.at
                 /\ markers'[markerRef'].draggable
                 /\ markers'[markerRef'].onMap = mapInstanceRef
                 /\ maps[mapInstanceRef].live
                 /\ \A h \in DOMAIN markers : markers'[h] = markers[h]
            ELSE /\ markerRef' = markerRef
                 /\ Len(markers') = Len(markers)
                 /\ markers'[markerRef] = [markers[markerRef] EXCEPT !.latlng = last'.at]
                 /\ \A h \in DOMAIN markers \ {markerRef} : markers'[h] = markers[h]]_vars

\* C8 witness: the current handler has moved an existing marker to the
\* clicked coordinate and made both calls.
C8_Witness ==
    /\ last.op = "handler"
    /\ Ready
    /\ last.ret = rendererRef
    /\ last.had # Null
    /\ last.had = markerRef
    /\ markers[markerRef].latlng = last.at
    /\ Len(last.calls) = 2

\* C9: when a markerPosition p is supplied, the component is READY and the
\* user has not clicked or dragged since, the marker exists at p on the
\* component's map and the map is centered on p.
C9_MarkerFollowsMarkerPosition ==
    (Ready /\ props.markerPosition.kind = "array" /\ ~last.userMoved) =>
        /\ markerRef # Null
        /\ markers[markerRef].latlng = <<props.markerPosition.x, props.markerPosition.y>>
        /\ markers[markerRef].onMap = mapInstanceRef
        /\ maps[mapInstanceRef].center = <<props.markerPosition.x, props.markerPosition.y>>

\* C10: while the component stays mounted, a placed marker stays referenced
\* and stays on the map it is displayed on.
C10_PlacedMarkerStays ==
    [][(status = "mounted" /\ status' = "mounted" /\ markerRef # Null) =>
         /\ markerRef' = markerRef
         /\ markers'[markerRef].onMap = markers[markerRef].onMap]_vars

\* C11: a READY component stays READY until it is unmounted: no re-render
\* takes it back to INITIALIZING.
C11_ReadyUntilUnmount ==
    [][(Ready /\ status' = "mounted") => Ready']_vars

\* C12: once the component is unmounted and every init continuation has run,
\* each facade it created is uninitialized, no live map is left on the
\* container, and the map, marker and renderer references are null.
C12_TeardownReleasesEverything ==
    (status = "unmounted" /\ pendingInit = <<>>) =>
        /\ mapInstanceRef = Null
        /\ markerRef = Null
        /\ rendererRef = Null
        /\ leafletId = Null
        /\ \A m \in DOMAIN maps : ~maps[m].live
        /\ \A r \in DOMAIN renderers : renderers[r].mapInstance = Null

\* The view requests the step made of the facade: <<"setView", center, zoom>>.
ViewRequests(calls) == {i \in DOMAIN calls : calls[i][1] = "setView"}

\* C13: a recentering on a supplied markerPosition asks for a zoom level that
\* is not smaller than the zoom level the map has at that moment.
C13_RecenterKeepsZoom ==
    [][\A i \in ViewRequests(last'.calls) :
          /\ mapInstanceRef # Null
          /\ last'.calls[i][3] >= maps[mapInstanceRef].zoom]_vars

\* C14: on a mounted component whose effects and init continuations have all
\* run, the map displayed in the container shows the center and the zoom of
\* the current props.
C14_ViewFollowsCenterAndZoom ==
    (status = "mounted" /\ pendingInit = <<>>) =>
        /\ leafletId # Null
        /\ maps[leafletId].live
        /\ maps[leafletId].center = <<props.center.x, props.center.y>>
        /\ maps[leafletId].zoom = props.zoom

\* C15: when a drag of the position marker ends, onMarkerPositionChange is
\* called exactly once, with the coordinate the marker was dropped at, and
\* onMapClick is not called.
C15_DragReportsPositionOnly ==
    last.op = "dragend" =>
        /\ last.calls = <<<<"onMarkerPositionChange", last.at>>>>
        /\ markers[last.ret].latlng = last.at

\* C15 witness: the referenced marker of a READY component that is given no
\* markerPosition has been dragged and the drop has been reported.
C15_Witness ==
    /\ last.op = "dragend"
    /\ Ready
    /\ last.ret = markerRef
    /\ props.markerPosition = Absent
    /\ Len(last.calls) = 1

\* C16: a click handler called after the cleanup of its init effect has run
\* creates no marker, moves none, changes no reference of the component and
\* calls neither onMarkerPositionChange nor onMapClick.
C16_StaleHandlerIsNoOp ==
    [][(last'.op = "handler" /\ cleanupOf # last'.ret) =>
         /\ markers' = markers
         /\ markerRef' = markerRef
         /\ mapInstanceRef' = mapInstanceRef
         /\ rendererRef' = rendererRef
         /\ last'.calls = <<>>]_vars

\* C17: the delayed layout callback of init never throws, and when it fires
\* after destroy it finds no map and touches none.
C17_LateTimerFindsNoMap ==
    last.op = "timer" =>
        /\ ~last.thrown
        /\ life = "destroyed" => last.ret = Null

LiveMaps == {m \in DOMAIN maps : maps[m].live}

\* C18: no step of the component initializes a facade that existed before the
\* step, at most one map is live, and when a new facade is created every
\* earlier facade has been brought back to the uninitialized state.
C18_DestroyBeforeNextInit ==
    [][/\ \A r \in DOMAIN renderers :
            /\ renderers'[r].containerId = renderers[r].containerId
            /\ renderers'[r].timers = renderers[r].timers
            /\ renderers'[r].mapInstance \in {renderers[r].mapInstance, Null}
       /\ Cardinality(LiveMaps') <= 1
       /\ Len(renderers') > Len(renderers) =>
            \A r \in DOMAIN renderers : renderers'[r].mapInstance = Null]_vars

\* The draggable markers that are attached to a live map.
PositionMarkers ==
    {h \in DOMAIN markers : /\ markers[h].draggable
                            /\ markers[h].onMap # Null
                            /\ maps[markers[h].onMap].live}

\* C19: a mounted component shows at most one position marker, and a non-null
\* marker reference refers to that marker, attached to the live map of the
\* component's container.
C19_SinglePositionMarker ==
    status = "mounted" =>
        /\ Cardinality(PositionMarkers) <= 1
        /\ markerRef # Null =>
              /\ leafletId # Null
              /\ markers[markerRef].onMap = leafletId
              /\ PositionMarkers = {markerRef}

\* The marker layers attached to the map the facade holds.
AttachedLayers ==
    {h \in DOMAIN markers : /\ renderers[F].mapInstance # Null
                            /\ markers[h].onMap = renderers[F].mapInstance}

MappedHandles == {renderers[F].leafletMarkers[id] : id \in Keys}

\* C20: the marker layers attached to the facade's map are exactly the handles
\* of the id-to-handle mapping, and no two ids share a handle.
C20_LayersMatchMapping ==
    /\ AttachedLayers = MappedHandles
    /\ Cardinality(MappedHandles) = Cardinality(Keys)

====
